---- MODULE Spec2Model ----
(***************************************************************************)
(* A model of the stream list front end (the DataList component and the    *)
(* services/api.ts fetch loop) and of the serverless proxy api/steams.js   *)
(* (token cache and request handler).                                      *)
(*                                                                         *)
(* React state is modelled as React keeps it: the committed state the      *)
(* screen is rendered from, and the updates queued by effects and by async *)
(* continuations (the variable pending), which the next render applies.    *)
(* A click handler's own update is rendered synchronously.                 *)
(***************************************************************************)
EXTENDS Integers, Sequences, FiniteSets, TLC

\* ------------------------------------------------------------------------
\* Program constants
\* ------------------------------------------------------------------------

\* while (cursor && currentPage < 10)
MaxLoopPages == 10

\* if (allStreams.length >= 1000) break
RecordCeiling == 1000

\* first: '100' : the page size the proxy asks the upstream for
PageSize == 100

\* data.expires_in * 1000
MsPerSecond == 1000

\* ... - 60000: "Refresh 1 min early"
RefreshEarlyMs == 60000

\* ------------------------------------------------------------------------
\* Bounds of the model
\* ------------------------------------------------------------------------

\* Runs of the load effect (mount + category selections) in one behaviour.
MaxLoads == 3

\* Records in one page of the small upstream.
MaxPageLen == 1

\* Pages after which the small upstream stops returning a cursor.
MaxUpstreamPages == 2

\* Length of the raw lists the dedup specification draws.
MaxRawLen == 3

\* Invocations of the proxy handler in one behaviour.
MaxCalls == 2

\* The clock advances in steps of this many milliseconds, this many times.
ClockStepMs == 30000

MaxTicks == 3

\* The longest list handed to the filter and sort effect.
MaxViewLen == 4

\* ------------------------------------------------------------------------
\* Values
\* ------------------------------------------------------------------------

\* let cachedToken = null
Null == 0

\* Two of the eight entries of the categories table.
categories == {"18122", "21779"}

\* The value of a missing pagination.cursor.
NoCursor == "undefined"

\* JavaScript truthiness of a cursor: undefined and "" are falsy.
Truthy(c) == c # NoCursor /\ c # ""

\* The cursors the modelled upstream hands out.
Cursors == {"c1"}

\* A comparison of the strings as they are.
toLowerCase_identity(s) == s

\* Strings that are searched are sequences of one-character strings.
toLowerCase(s) ==
  [i \in DOMAIN s |->
     CASE s[i] = "A" -> "a"
       [] s[i] = "B" -> "b"
       [] OTHER -> s[i]]

\* String.prototype.includes: t occurs in s as a contiguous substring.
includes(s, t) ==
  \E k \in 0..(Len(s) - Len(t)) :
     \A j \in 1..Len(t) : s[k + j] = t[j]

\* A TwitchStream: the fields the component reads.
Stream(i, g, v, t, u) ==
  [id |-> i, game_id |-> g, viewer_count |-> v, title |-> t, user_name |-> u]

\* What the small upstream can return for a category: two live channels.
Catalogue(g) ==
  { Stream(1, g, 50, <<"A">>, <<"b">>),
    Stream(2, g, 200, <<"b">>, <<"a">>) }

BoundedSeq(S, n) == UNION { [1..k -> S] : k \in 0..n }

\* ------------------------------------------------------------------------
\* Dedup: Array.from(new Map(allStreams.map(s => [s.id, s])).values())
\* ------------------------------------------------------------------------

\* A set that keeps the first value of an existing key.
MapSet_keepFirst(m, k, v) ==
  IF \E i \in DOMAIN m : m[i][1] = k THEN m ELSE Append(m, <<k, v>>)

\* Map.prototype.set on a map kept as its insertion-ordered entry list: an
\* existing key keeps its place and takes the new value, a new key goes last.
MapSet(m, k, v) ==
  IF \E i \in DOMAIN m : m[i][1] = k
    THEN [i \in DOMAIN m |-> IF m[i][1] = k THEN <<k, v>> ELSE m[i]]
    ELSE Append(m, <<k, v>>)

RECURSIVE MapSetAll(_, _)
\* The entries set one after the other, first to last. The list is split in
\* halves, and the first half's map is computed (its length is asked for)
\* before the second half is set, only to keep the evaluation shallow.
MapSetAll(m, entries) ==
  IF entries = <<>> THEN m
  ELSE IF Len(entries) = 1 THEN MapSet(m, entries[1][1], entries[1][2])
  ELSE LET n == Len(entries)
           h == n \div 2
           first == MapSetAll(m, SubSeq(entries, 1, h))
       IN IF Len(first) > 0 THEN MapSetAll(first, SubSeq(entries, h + 1, n))
          ELSE first

\* new Map(entries)
NewMap(entries) == MapSetAll(<<>>, entries)

MapValues(m) == [i \in DOMAIN m |-> m[i][2]]

uniqueStreams(allStreams) ==
  MapValues(NewMap([i \in DOMAIN allStreams |-> <<allStreams[i].id, allStreams[i]>>]))

\* ------------------------------------------------------------------------
\* The filter and sort effect
\* ------------------------------------------------------------------------

\* DataList.tsx and part_000 search the title and the streamer name;
\* part_001 searches the title only.
Matches(variant, stream, term) ==
  IF variant = "inline"
    THEN \/ includes(toLowerCase(stream.title), toLowerCase(term))
         \/ includes(toLowerCase(stream.user_name), toLowerCase(term))
    ELSE includes(toLowerCase(stream.title), toLowerCase(term))

Filter(variant, list, term) ==
  IF term # <<>>
    THEN LET Keep(s) == Matches(variant, s, term) IN SelectSeq(list, Keep)
    ELSE list

\* The comparator handed to Array.prototype.sort.
Compare(order, a, b) ==
  IF order = "desc" THEN b.viewer_count - a.viewer_count
  ELSE a.viewer_count - b.viewer_count

RECURSIVE InsertSorted_beforeEqual(_, _, _)
\* x placed before the elements it ties with.
InsertSorted_beforeEqual(order, sorted, x) ==
  IF sorted = <<>> THEN <<x>>
  ELSE IF Compare(order, Head(sorted), x) < 0
         THEN <<Head(sorted)>> \o InsertSorted_beforeEqual(order, Tail(sorted), x)
         ELSE <<x>> \o sorted

RECURSIVE InsertSorted(_, _, _)
\* x placed after every element it does not precede (stable).
InsertSorted(order, sorted, x) ==
  IF sorted = <<>> THEN <<x>>
  ELSE IF Compare(order, Head(sorted), x) <= 0
         THEN <<Head(sorted)>> \o InsertSorted(order, Tail(sorted), x)
         ELSE <<x>> \o sorted

RECURSIVE Sort(_, _)
\* Array.prototype.sort is stable (ES2019).
Sort(order, list) ==
  IF list = <<>> THEN <<>>
  ELSE LET n == Len(list)
       IN InsertSorted(order, Sort(order, SubSeq(list, 1, n - 1)), list[n])

\* The body of the second effect: what it hands to setDisplayedStreams.
filtered(variant, list, term, order) == Sort(order, Filter(variant, list, term))

\* ------------------------------------------------------------------------
\* State
\* ------------------------------------------------------------------------

VARIABLES
  variant,           \* which component is mounted: "inline" (DataList.tsx,
                     \* part_000: the loop is in the effect) or "service"
                     \* (part_001: the effect calls fetchAllStreams)
  streams,           \* useState<TwitchStream[]>([])
  displayedStreams,  \* useState<TwitchStream[]>([])
  isLoading,         \* useState(true)
  error,             \* useState<string | null>(null)
  searchTerm,        \* useState('')
  sortOrder,         \* useState<'asc' | 'desc'>('desc')
  selectedCategory,  \* useState('18122')
  loadingCount,      \* useState(0)
  pending,           \* state updates queued and not yet rendered
  loads,             \* the runs of loadStreams, in the order they started
  \* api/steams.js
  cachedToken,       \* let cachedToken = null
  tokenExpiry,       \* let tokenExpiry = 0
  env,               \* process.env: which credentials are set
  revision,          \* which of the file's two texts of getOAuthToken and
                     \* handler is deployed: "first" (lines 1-103) or
                     \* "second" (lines 104-236)
  clock,             \* Date.now()
  calls,             \* the invocations of handler, in the order they arrived
  issued,            \* the tokens the auth endpoint has handed out
  \* the dedup expression on its own
  raw,               \* a list of fetched records
  unique             \* <<>> or <<the deduplicated list>>

clientVars ==
  <<variant, streams, displayedStreams, isLoading, error, searchTerm,
    sortOrder, selectedCategory, loadingCount, pending, loads>>

proxyVars == <<cachedToken, tokenExpiry, env, revision, clock, calls, issued>>

pureVars == <<raw, unique>>

vars == <<clientVars, proxyVars, pureVars>>

\* No queued update: each field holds <<>> (none) or <<v>> (set to v).
NoUpdates ==
  [streams |-> <<>>, displayedStreams |-> <<>>, isLoading |-> <<>>,
   error |-> <<>>, loadingCount |-> <<>>]

\* The message of the Error axios rejects with.
ErrorMessages == {"Network Error"}

\* The user's search inputs.
SearchTerms == {<<>>, <<"a">>}

\* ------------------------------------------------------------------------
\* One run of a load: the local variables of the async function, where it
\* is suspended (pc), and what it has done so far (fetches, received, sent,
\* outcome, result, message)
\* ------------------------------------------------------------------------

\* The value of the local response before the first page has arrived.
NoResponse == [data |-> <<>>, cursor |-> NoCursor]

\* The locals at the first await: the first page has been requested.
\* overlaps: the loads that were still running when this one started.
StartLoad(c, running) ==
  [category |-> c, pc |-> "first", allStreams |-> <<>>, cursor |-> NoCursor,
   currentPage |-> 0, response |-> NoResponse,
   fetches |-> 1, received |-> 0, sent |-> NoCursor, delays |-> 0,
   overlaps |-> running,
   outcome |-> "pending", result |-> <<>>, message |-> "null"]

\* ---- services/api.ts: fetchAllStreams ----

\* A loop condition that does not look at the cursor.
fetchAllStreams_while_noCursor(l) == l.currentPage < MaxLoopPages

\* while (cursor && currentPage < 10)
fetchAllStreams_while(l) == Truthy(l.cursor) /\ l.currentPage < MaxLoopPages

\* if (allStreams.length >= 1000) break
fetchAllStreams_break(l) == Len(l.allStreams) >= RecordCeiling

\* A return of the list as fetched.
fetchAllStreams_return_raw(l) ==
  [l EXCEPT !.pc = "done", !.outcome = "ok", !.result = l.allStreams]

\* The dedup and the return.
fetchAllStreams_return(l) ==
  [l EXCEPT !.pc = "done", !.outcome = "ok",
            !.result = uniqueStreams(l.allStreams)]

\* The first page arrives: push, take the cursor, enter the loop or return.
fetchAllStreams_first(l, response) ==
  LET a == [l EXCEPT !.response = response,
                     !.allStreams = @ \o response.data,
                     !.cursor = response.cursor,
                     !.received = @ + 1]
  IN IF fetchAllStreams_while(a) THEN [a EXCEPT !.pc = "delay"]
     ELSE fetchAllStreams_return(a)

\* A later page arrives: push, take the cursor, count the page, break on
\* the record ceiling, else test the loop condition again.
fetchAllStreams_next(l, response) ==
  LET a == [l EXCEPT !.response = response,
                     !.allStreams = @ \o response.data,
                     !.cursor = response.cursor,
                     !.currentPage = @ + 1,
                     !.received = @ + 1]
  IN IF fetchAllStreams_break(a) THEN fetchAllStreams_return(a)
     ELSE IF fetchAllStreams_while(a) THEN [a EXCEPT !.pc = "delay"]
     ELSE fetchAllStreams_return(a)

\* The 100 ms timer fires: the next page is requested with the cursor.
fetchAllStreams_delay(l) ==
  [l EXCEPT !.pc = "next", !.delays = @ + 1, !.fetches = @ + 1,
            !.sent = l.cursor]

\* fetchStreams rejects: nothing catches it here, the promise rejects.
fetchAllStreams_throw(l, msg) ==
  [l EXCEPT !.pc = "done", !.outcome = "error", !.message = msg]

\* ---- components/DataList.tsx: the loop inside loadStreams ----

\* while (cursor && currentPage < 10)
loadStreams_while(l) == Truthy(l.cursor) /\ l.currentPage < MaxLoopPages

\* A loop without the record check.
loadStreams_break_never(l) == FALSE

\* if (allStreams.length >= 1000) break
loadStreams_break(l) == Len(l.allStreams) >= RecordCeiling

\* The dedup after the loop.
loadStreams_unique(l) ==
  [l EXCEPT !.pc = "done", !.outcome = "ok",
            !.result = uniqueStreams(l.allStreams)]

loadStreams_first(l, response) ==
  LET a == [l EXCEPT !.response = response,
                     !.allStreams = @ \o response.data,
                     !.cursor = response.cursor,
                     !.received = @ + 1]
  IN IF loadStreams_while(a) THEN [a EXCEPT !.pc = "delay"]
     ELSE loadStreams_unique(a)

loadStreams_next(l, response) ==
  LET a == [l EXCEPT !.response = response,
                     !.allStreams = @ \o response.data,
                     !.cursor = response.cursor,
                     !.currentPage = @ + 1,
                     !.received = @ + 1]
  IN IF loadStreams_break(a) THEN loadStreams_unique(a)
     ELSE IF loadStreams_while(a) THEN [a EXCEPT !.pc = "delay"]
     ELSE loadStreams_unique(a)

\* A loop that asks for the first page again.
loadStreams_delay_noCursor(l) ==
  [l EXCEPT !.pc = "next", !.fetches = @ + 1, !.sent = NoCursor]

\* A loop without the setTimeout line.
loadStreams_delay_skipped(l) ==
  [l EXCEPT !.pc = "next", !.fetches = @ + 1, !.sent = l.cursor]

\* await new Promise(resolve => setTimeout(resolve, 100)) has resolved and
\* the next page is requested with the cursor.
loadStreams_delay(l) ==
  [l EXCEPT !.pc = "next", !.delays = @ + 1, !.fetches = @ + 1,
            !.sent = l.cursor]

\* catch (err): the accumulated records are dropped with the locals.
loadStreams_catch(l, msg) ==
  [l EXCEPT !.pc = "done", !.outcome = "error", !.message = msg]

\* ------------------------------------------------------------------------
\* The upstream, as the client sees it through fetchStreams
\* ------------------------------------------------------------------------

\* A small result set: short pages of the category's records, and no cursor
\* from the last page on.
SmallResponses(l) ==
  { [data |-> d, cursor |-> c] :
      d \in BoundedSeq(Catalogue(l.category), MaxPageLen),
      c \in IF l.received + 1 < MaxUpstreamPages
              THEN Cursors \cup {NoCursor} ELSE {NoCursor} }

\* The page sizes of the large upstream: empty, one record, one short of a
\* full page, a full page.
BulkSizes == {0, 1, PageSize - 1, PageSize}

\* A large result set: pages of up to PageSize observations of one channel,
\* with or without a cursor, for as long as the client asks.
BulkResponses(l) ==
  { [data |-> [k \in 1..n |-> Stream(1, l.category, 50, <<"A">>, <<"b">>)],
     cursor |-> c] :
      n \in BulkSizes, c \in Cursors \cup {NoCursor} }

\* The cursors of the paging upstream: consecutive pages carry different
\* ones.
PageCursors == {"c1", "c2"}

\* A result set of many short pages: one record or none on each, with one of
\* two cursors or none, for as long as the client asks.
PageResponses(l) ==
  { [data |-> d, cursor |-> c] :
      d \in BoundedSeq({Stream(1, l.category, 50, <<"A">>, <<"b">>)}, MaxPageLen),
      c \in PageCursors \cup {NoCursor} }

\* ------------------------------------------------------------------------
\* The component: what a step of a load queues for React
\* ------------------------------------------------------------------------

\* The first lines of loadStreams, before the first await. part_001 has no
\* loadingCount.
QueuePrologue(p) ==
  LET q == [p EXCEPT !.isLoading = <<TRUE>>, !.error = <<"null">>,
                     !.streams = << <<>> >>, !.displayedStreams = << <<>> >>]
  IN IF variant = "inline" THEN [q EXCEPT !.loadingCount = <<0>>] ELSE q

\* A setStreams that adds the new list to the one on the screen.
QueueAfterPage_merged(p, l) ==
  IF l.pc = "done"
    THEN [p EXCEPT !.streams = <<streams \o l.result>>,
                   !.displayedStreams = <<streams \o l.result>>,
                   !.isLoading = <<FALSE>>]
    ELSE p

\* A progress display fed with the number of distinct channels.
QueueAfterPage_uniqueCount(p, l) ==
  LET counted == IF variant = "inline"
                   THEN [p EXCEPT !.loadingCount = <<Len(uniqueStreams(l.allStreams))>>]
                   ELSE p
  IN IF l.pc = "done"
       THEN [counted EXCEPT !.streams = <<l.result>>,
                            !.displayedStreams = <<l.result>>,
                            !.isLoading = <<FALSE>>]
       ELSE counted

\* A load without the finally block.
QueueAfterPage_noFinally(p, l) ==
  IF l.pc = "done"
    THEN [p EXCEPT !.streams = <<l.result>>, !.displayedStreams = <<l.result>>]
    ELSE p

\* After a page: setLoadingCount (inline only); once the loop is over,
\* setStreams and setDisplayedStreams with the deduplicated list, and the
\* finally block's setIsLoading(false).
QueueAfterPage(p, l) ==
  LET counted == IF variant = "inline"
                   THEN [p EXCEPT !.loadingCount = <<Len(l.allStreams)>>]
                   ELSE p
  IN IF l.pc = "done"
       THEN [counted EXCEPT !.streams = <<l.result>>,
                            !.displayedStreams = <<l.result>>,
                            !.isLoading = <<FALSE>>]
       ELSE counted

\* A catch block that shows what had been fetched.
QueueAfterError_partial(p, l) ==
  [p EXCEPT !.error = <<l.message>>, !.isLoading = <<FALSE>>,
            !.streams = <<uniqueStreams(l.allStreams)>>,
            !.displayedStreams = <<uniqueStreams(l.allStreams)>>]

\* The catch block's setError and the finally block's setIsLoading(false).
QueueAfterError(p, l) ==
  [p EXCEPT !.error = <<l.message>>, !.isLoading = <<FALSE>>]

\* The loads that have not finished.
Running == { i \in DOMAIN loads : loads[i].pc # "done" }

\* The category buttons, the search box and the sort button are rendered
\* only past the two early returns of the render function.
MainScreen == ~isLoading /\ error = "null"

\* ------------------------------------------------------------------------
\* Actions
\* ------------------------------------------------------------------------

ClientInit ==
  /\ variant \in {"inline", "service"}
  /\ streams = <<>>
  /\ displayedStreams = <<>>
  /\ isLoading = TRUE
  /\ error = "null"
  /\ searchTerm = <<>>
  /\ sortOrder = "desc"
  /\ selectedCategory = "18122"
  /\ loadingCount = 0
  /\ pending = NoUpdates
  /\ loads = <<>>

\* The effects of the first render: loadStreams starts for the initial
\* category, and the filter effect hands the (empty) list on.
Mount ==
  /\ loads = <<>>
  /\ loads' = <<StartLoad(selectedCategory, {})>>
  /\ pending' = [QueuePrologue(pending) EXCEPT
                   !.displayedStreams =
                      <<filtered(variant, streams, searchTerm, sortOrder)>>]
  /\ UNCHANGED <<variant, streams, displayedStreams, isLoading, error,
                 searchTerm, sortOrder, selectedCategory, loadingCount>>

\* A click on a category button: the new category is rendered at once and
\* the load effect runs; what the effect queues waits for the next render.
handleCategoryChange(c) ==
  /\ MainScreen
  /\ loads # <<>>
  /\ Len(loads) < MaxLoads
  /\ c # selectedCategory
  /\ selectedCategory' = c
  /\ loads' = Append(loads, StartLoad(c, Running))
  /\ pending' = QueuePrologue(pending)
  /\ UNCHANGED <<variant, streams, displayedStreams, isLoading, error,
                 searchTerm, sortOrder, loadingCount>>

\* A search that narrows the loaded list itself.
handleSearch_narrows(t) ==
  /\ MainScreen
  /\ t # searchTerm
  /\ searchTerm' = t
  /\ pending' = [pending EXCEPT
                   !.streams = <<Filter(variant, streams, t)>>,
                   !.displayedStreams = <<filtered(variant, streams, t, sortOrder)>>]
  /\ UNCHANGED <<variant, streams, displayedStreams, isLoading, error,
                 sortOrder, selectedCategory, loadingCount, loads>>

\* Typing in the search box: the term is rendered at once and the filter
\* effect runs on the rendered streams.
handleSearch(t) ==
  /\ MainScreen
  /\ t # searchTerm
  /\ searchTerm' = t
  /\ pending' = [pending EXCEPT
                   !.displayedStreams = <<filtered(variant, streams, t, sortOrder)>>]
  /\ UNCHANGED <<variant, streams, displayedStreams, isLoading, error,
                 sortOrder, selectedCategory, loadingCount, loads>>

\* A click on the sort button.
toggleSort ==
  /\ MainScreen
  /\ sortOrder' = IF sortOrder = "desc" THEN "asc" ELSE "desc"
  /\ pending' = [pending EXCEPT
                   !.displayedStreams =
                      <<filtered(variant, streams, searchTerm, sortOrder')>>]
  /\ UNCHANGED <<variant, streams, displayedStreams, isLoading, error,
                 searchTerm, selectedCategory, loadingCount, loads>>

\* React renders the queued updates; a new streams array makes the filter
\* effect run, which queues its own setDisplayedStreams.
Render ==
  /\ pending # NoUpdates
  /\ streams' = IF pending.streams # <<>> THEN pending.streams[1] ELSE streams
  /\ displayedStreams' = IF pending.displayedStreams # <<>>
                           THEN pending.displayedStreams[1] ELSE displayedStreams
  /\ isLoading' = IF pending.isLoading # <<>> THEN pending.isLoading[1] ELSE isLoading
  /\ error' = IF pending.error # <<>> THEN pending.error[1] ELSE error
  /\ loadingCount' = IF pending.loadingCount # <<>>
                       THEN pending.loadingCount[1] ELSE loadingCount
  /\ pending' = IF pending.streams # <<>>
                  THEN [NoUpdates EXCEPT
                          !.displayedStreams =
                             <<filtered(variant, streams', searchTerm, sortOrder)>>]
                  ELSE NoUpdates
  /\ UNCHANGED <<variant, searchTerm, sortOrder, selectedCategory, loads>>

\* The error screen of DataList.tsx and part_000 (past the loading screen's
\* early return) has one button, onClick={() => window.location.reload()}:
\* the page starts over and the loads of the old page are gone. The error
\* screen of part_001 has no button.
Reload ==
  /\ ~isLoading
  /\ error # "null"
  /\ variant = "inline"
  /\ streams' = <<>>
  /\ displayedStreams' = <<>>
  /\ isLoading' = TRUE
  /\ error' = "null"
  /\ searchTerm' = <<>>
  /\ sortOrder' = "desc"
  /\ selectedCategory' = "18122"
  /\ loadingCount' = 0
  /\ pending' = NoUpdates
  /\ loads' = <<>>
  /\ UNCHANGED variant

\* The response to the first fetchStreams call of load i arrives.
FirstPage(i, response) ==
  /\ loads[i].pc = "first"
  /\ LET l == IF variant = "inline" THEN loadStreams_first(loads[i], response)
              ELSE fetchAllStreams_first(loads[i], response)
     IN /\ loads' = [loads EXCEPT ![i] = l]
        /\ pending' = QueueAfterPage(pending, l)
  /\ UNCHANGED <<variant, streams, displayedStreams, isLoading, error,
                 searchTerm, sortOrder, selectedCategory, loadingCount>>

\* The inter-page timer of load i fires and the next page is requested.
Delay(i) ==
  /\ loads[i].pc = "delay"
  /\ loads' = [loads EXCEPT ![i] =
                 IF variant = "inline" THEN loadStreams_delay(loads[i])
                 ELSE fetchAllStreams_delay(loads[i])]
  /\ UNCHANGED <<variant, streams, displayedStreams, isLoading, error, searchTerm,
                 sortOrder, selectedCategory, loadingCount, pending>>

\* The response to a fetchStreams call in the loop of load i arrives.
NextPage(i, response) ==
  /\ loads[i].pc = "next"
  /\ LET l == IF variant = "inline" THEN loadStreams_next(loads[i], response)
              ELSE fetchAllStreams_next(loads[i], response)
     IN /\ loads' = [loads EXCEPT ![i] = l]
        /\ pending' = QueueAfterPage(pending, l)
  /\ UNCHANGED <<variant, streams, displayedStreams, isLoading, error,
                 searchTerm, sortOrder, selectedCategory, loadingCount>>

\* The outstanding fetchStreams call of load i rejects.
FetchFails(i, msg) ==
  /\ loads[i].pc \in {"first", "next"}
  /\ LET l == IF variant = "inline" THEN loadStreams_catch(loads[i], msg)
              ELSE fetchAllStreams_throw(loads[i], msg)
     IN /\ loads' = [loads EXCEPT ![i] = l]
        /\ pending' = QueueAfterError(pending, l)
  /\ UNCHANGED <<variant, streams, displayedStreams, isLoading, error,
                 searchTerm, sortOrder, selectedCategory, loadingCount>>

\* The module state of a freshly loaded api/steams.js.
ProxyInit ==
  /\ cachedToken = Null
  /\ tokenExpiry = 0
  /\ env \in [TWITCH_CLIENT_ID : BOOLEAN, TWITCH_CLIENT_SECRET : BOOLEAN]
  /\ revision \in {"first", "second"}
  /\ clock = ClockStepMs
  /\ calls = <<>>
  /\ issued = <<>>

\* The proxy as deployed with both credentials and not yet called.
ProxyIdle ==
  /\ cachedToken = Null
  /\ tokenExpiry = 0
  /\ env = [TWITCH_CLIENT_ID |-> TRUE, TWITCH_CLIENT_SECRET |-> TRUE]
  /\ revision = "second"
  /\ clock = ClockStepMs
  /\ calls = <<>>
  /\ issued = <<>>

PureIdle == raw = <<>> /\ unique = <<>>

Init == ClientInit /\ ProxyIdle /\ PureIdle

\* The component against the small upstream, with category switching.
Next ==
  \/ Mount /\ UNCHANGED <<proxyVars, pureVars>>
  \/ \E c \in categories : handleCategoryChange(c) /\ UNCHANGED <<proxyVars, pureVars>>
  \/ \E t \in SearchTerms : handleSearch(t) /\ UNCHANGED <<proxyVars, pureVars>>
  \/ toggleSort /\ UNCHANGED <<proxyVars, pureVars>>
  \/ Render /\ UNCHANGED <<proxyVars, pureVars>>
  \/ Reload /\ UNCHANGED <<proxyVars, pureVars>>
  \/ \E i \in DOMAIN loads : \E r \in SmallResponses(loads[i]) :
        FirstPage(i, r) /\ UNCHANGED <<proxyVars, pureVars>>
  \/ \E i \in DOMAIN loads : Delay(i) /\ UNCHANGED <<proxyVars, pureVars>>
  \/ \E i \in DOMAIN loads : \E r \in SmallResponses(loads[i]) :
        NextPage(i, r) /\ UNCHANGED <<proxyVars, pureVars>>
  \/ \E i \in DOMAIN loads : \E m \in ErrorMessages :
        FetchFails(i, m) /\ UNCHANGED <<proxyVars, pureVars>>

Spec == Init /\ [][Next]_vars

\* One load against the large upstream, for the ceilings. React's renders
\* are left to Spec: a running load reads none of the component's state.
NextCeil ==
  \/ Mount /\ UNCHANGED <<proxyVars, pureVars>>
  \/ \E i \in DOMAIN loads : \E r \in BulkResponses(loads[i]) :
        FirstPage(i, r) /\ UNCHANGED <<proxyVars, pureVars>>
  \/ \E i \in DOMAIN loads : Delay(i) /\ UNCHANGED <<proxyVars, pureVars>>
  \/ \E i \in DOMAIN loads : \E r \in BulkResponses(loads[i]) :
        NextPage(i, r) /\ UNCHANGED <<proxyVars, pureVars>>
  \/ \E i \in DOMAIN loads : \E m \in ErrorMessages :
        FetchFails(i, m) /\ UNCHANGED <<proxyVars, pureVars>>

SpecCeil == Init /\ [][NextCeil]_vars

\* One load against the paging upstream, for the order of its requests.
NextPages ==
  \/ Mount /\ UNCHANGED <<proxyVars, pureVars>>
  \/ \E i \in DOMAIN loads : \E r \in PageResponses(loads[i]) :
        FirstPage(i, r) /\ UNCHANGED <<proxyVars, pureVars>>
  \/ \E i \in DOMAIN loads : Delay(i) /\ UNCHANGED <<proxyVars, pureVars>>
  \/ \E i \in DOMAIN loads : \E r \in PageResponses(loads[i]) :
        NextPage(i, r) /\ UNCHANGED <<proxyVars, pureVars>>
  \/ \E i \in DOMAIN loads : \E m \in ErrorMessages :
        FetchFails(i, m) /\ UNCHANGED <<proxyVars, pureVars>>

SpecPages == Init /\ [][NextPages]_vars

\* The mount effect runs.
Mounted == Mount /\ UNCHANGED <<proxyVars, pureVars>>

\* A timer that is set fires.
TimerFires == \E i \in DOMAIN loads : Delay(i) /\ UNCHANGED <<proxyVars, pureVars>>

\* A page request that is outstanding fails or is answered with a page.
Answered ==
  \/ \E i \in DOMAIN loads : \E m \in ErrorMessages :
        FetchFails(i, m) /\ UNCHANGED <<proxyVars, pureVars>>
  \/ \E i \in DOMAIN loads : \E r \in PageResponses(loads[i]) :
        FirstPage(i, r) /\ UNCHANGED <<proxyVars, pureVars>>
  \/ \E i \in DOMAIN loads : \E r \in PageResponses(loads[i]) :
        NextPage(i, r) /\ UNCHANGED <<proxyVars, pureVars>>

\* The same load with the scheduling the runtime and the network give it.
SpecPagesFair ==
  SpecPages /\ WF_vars(Mounted) /\ WF_vars(TimerFires) /\ WF_vars(Answered)

\* The same load with an upstream that owes no answer: only what the client
\* does by itself is scheduled. fetchStreams calls axios.get without a
\* timeout option and nothing else in the client ends a request.
SpecPagesSilent == SpecPages /\ WF_vars(Mounted) /\ WF_vars(TimerFires)

\* ------------------------------------------------------------------------
\* The two loads side by side: loads[1] runs the loop inside loadStreams of
\* DataList.tsx, loads[2] a call of fetchAllStreams, against one upstream
\* that gives both the same answer to their n-th request
\* ------------------------------------------------------------------------

\* The page sizes of the upstream both are run against: empty, one record,
\* a full page.
TwinSizes == {0, 1, PageSize}

\* A large result set of two channels, observed in turn for as long as the
\* client asks: pages of up to PageSize records, with one of two cursors or
\* none.
TwinResponses(l) ==
  { [data |-> [k \in 1..n |-> Stream(1 + ((p + k) % 2), g, 50, <<"A">>, <<"b">>)],
     cursor |-> c] :
      n \in TwinSizes, c \in PageCursors \cup {NoCursor},
      g \in {l.category}, p \in {Len(l.allStreams)} }

\* The component of DataList.tsx, which has the loop inline.
TwinInit == ClientInit /\ variant = "inline"

\* The first render starts loadStreams; fetchAllStreams is called with the
\* same category.
TwinMount ==
  /\ loads = <<>>
  /\ loads' = <<StartLoad(selectedCategory, {}), StartLoad(selectedCategory, {})>>
  /\ pending' = [QueuePrologue(pending) EXCEPT
                   !.displayedStreams =
                      <<filtered(variant, streams, searchTerm, sortOrder)>>]
  /\ UNCHANGED <<variant, streams, displayedStreams, isLoading, error,
                 searchTerm, sortOrder, selectedCategory, loadingCount>>

\* The first page arrives at both.
TwinFirstPage(response) ==
  /\ Len(loads) = 2
  /\ loads[1].pc = "first"
  /\ loads[2].pc = "first"
  /\ LET l == loadStreams_first(loads[1], response)
     IN /\ loads' = <<l, fetchAllStreams_first(loads[2], response)>>
        /\ pending' = QueueAfterPage(pending, l)
  /\ UNCHANGED <<variant, streams, displayedStreams, isLoading, error,
                 searchTerm, sortOrder, selectedCategory, loadingCount>>

\* The timers of both fire and each requests its next page.
TwinDelay ==
  /\ Len(loads) = 2
  /\ loads[1].pc = "delay"
  /\ loads[2].pc = "delay"
  /\ loads' = <<loadStreams_delay(loads[1]), fetchAllStreams_delay(loads[2])>>
  /\ UNCHANGED <<variant, streams, displayedStreams, isLoading, error, searchTerm,
                 sortOrder, selectedCategory, loadingCount, pending>>

\* A later page arrives at both.
TwinNextPage(response) ==
  /\ Len(loads) = 2
  /\ loads[1].pc = "next"
  /\ loads[2].pc = "next"
  /\ LET l == loadStreams_next(loads[1], response)
     IN /\ loads' = <<l, fetchAllStreams_next(loads[2], response)>>
        /\ pending' = QueueAfterPage(pending, l)
  /\ UNCHANGED <<variant, streams, displayedStreams, isLoading, error,
                 searchTerm, sortOrder, selectedCategory, loadingCount>>

\* The outstanding request of both rejects.
TwinFetchFails(msg) ==
  /\ Len(loads) = 2
  /\ loads[1].pc \in {"first", "next"}
  /\ loads[2].pc \in {"first", "next"}
  /\ LET l == loadStreams_catch(loads[1], msg)
     IN /\ loads' = <<l, fetchAllStreams_throw(loads[2], msg)>>
        /\ pending' = QueueAfterError(pending, l)
  /\ UNCHANGED <<variant, streams, displayedStreams, isLoading, error,
                 searchTerm, sortOrder, selectedCategory, loadingCount>>

InitTwin == TwinInit /\ ProxyIdle /\ PureIdle

NextTwin ==
  \/ TwinMount /\ UNCHANGED <<proxyVars, pureVars>>
  \/ \E i \in DOMAIN loads : \E r \in TwinResponses(loads[i]) :
        TwinFirstPage(r) /\ UNCHANGED <<proxyVars, pureVars>>
  \/ TwinDelay /\ UNCHANGED <<proxyVars, pureVars>>
  \/ \E i \in DOMAIN loads : \E r \in TwinResponses(loads[i]) :
        TwinNextPage(r) /\ UNCHANGED <<proxyVars, pureVars>>
  \/ \E m \in ErrorMessages : TwinFetchFails(m) /\ UNCHANGED <<proxyVars, pureVars>>

SpecTwin == InitTwin /\ [][NextTwin]_vars

\* ------------------------------------------------------------------------
\* api/steams.js: the token cache and the request handler
\* ------------------------------------------------------------------------

\* The lifetimes (seconds) the auth endpoint may answer with: the one-minute
\* margin itself and twice the margin.
ExpiresInChoices == {60, 120}

\* The request methods the handler is tried with.
Methods == {"GET", "OPTIONS", "POST"}

\* req.query.game_id: missing ("") or present.
GameIds == {"", "18122"}

\* The comparison the wrong way round.
getOAuthToken_cached_inverted(token, expiry, now) == token # Null /\ now > expiry

\* if (cachedToken && Date.now() < tokenExpiry)
getOAuthToken_cached(token, expiry, now) == token # Null /\ now < expiry

\* if (!process.env.TWITCH_CLIENT_ID || !process.env.TWITCH_CLIENT_SECRET)
getOAuthToken_unconfigured(e) ==
  ~e.TWITCH_CLIENT_ID \/ ~e.TWITCH_CLIENT_SECRET

\* The expiry without the early refresh.
getOAuthToken_expiry_noMargin(now, expires_in) == now + (expires_in * MsPerSecond)

\* tokenExpiry = Date.now() + (data.expires_in * 1000) - 60000
getOAuthToken_expiry(now, expires_in) ==
  now + (expires_in * MsPerSecond) - RefreshEarlyMs

\* An invocation of handler as it arrives. startedAt, cachedAtStart (the
\* cached token then), alone (no exchange was in flight then), sent (the
\* exchange requests it has sent), hit (its token came from the cache) and
\* expirySet (the tokenExpiry it stored) record what the invocation did, as
\* do fetched (the data requests it has sent), responses (how many times it
\* has answered) and failure (what threw: "config", "auth", "upstream", or
\* "none").
NewCall(method, game_id) ==
  [method |-> method, game_id |-> game_id, pc |-> "start", status |-> 0,
   token |-> Null, startedAt |-> clock, cachedAtStart |-> cachedToken,
   alone |-> \A i \in DOMAIN calls : calls[i].pc # "exchange",
   sent |-> 0, hit |-> FALSE, expirySet |-> 0,
   fetched |-> 0, responses |-> 0, failure |-> "none"]

\* res.status(code).json(...) or .end(): the handler answers and returns.
Respond(c, code) ==
  [c EXCEPT !.pc = "done", !.status = code, !.responses = @ + 1]

\* A catch block that logs and answers nothing.
handler_catch_silent(c, what) == [c EXCEPT !.pc = "done", !.failure = what]

\* The catch block of handler: res.status(500).json(...).
handler_catch(c, what) == Respond([c EXCEPT !.failure = what], 500)

\* fetchStreamPage up to its await: the data request is sent.
fetchStreamPage(c) == [c EXCEPT !.pc = "fetch", !.fetched = @ + 1]

\* Only the second text of getOAuthToken looks at process.env before the
\* exchange; the first builds the request from whatever is there.
getOAuthToken_checksEnv(r) == r = "second"

\* getOAuthToken up to its first await, as called from handler: the cached
\* token is returned and fetchStreamPage sends the data request; or the
\* missing credentials throw, which handler answers with 500; or the
\* credential exchange is sent.
getOAuthToken(c) ==
  IF getOAuthToken_cached(cachedToken, tokenExpiry, clock)
    THEN fetchStreamPage([c EXCEPT !.token = cachedToken, !.hit = TRUE])
  ELSE IF getOAuthToken_checksEnv(revision) /\ getOAuthToken_unconfigured(env)
    THEN handler_catch(c, "config")
  ELSE [c EXCEPT !.pc = "exchange", !.sent = @ + 1]

\* A handler that validates game_id before it looks at the method.
handler_gameIdFirst(c) ==
  IF c.game_id = "" THEN Respond(c, 400)
  ELSE IF c.method = "OPTIONS" THEN Respond(c, 200)
  ELSE IF c.method # "GET" THEN Respond(c, 405)
  ELSE getOAuthToken(c)

\* handler up to its first await.
handler(c) ==
  IF c.method = "OPTIONS" THEN Respond(c, 200)
  ELSE IF c.method # "GET" THEN Respond(c, 405)
  ELSE IF c.game_id = "" THEN Respond(c, 400)
  ELSE getOAuthToken(c)

\* A request arrives.
Request(method, game_id) ==
  /\ Len(calls) < MaxCalls
  /\ calls' = Append(calls, handler(NewCall(method, game_id)))
  /\ UNCHANGED <<cachedToken, tokenExpiry, env, revision, clock, issued>>

\* The auth endpoint answers call i with a fresh token, which it does only
\* for credentials that exist: the token is cached with its early expiry and
\* the data request is sent.
ExchangeOk(i, expires_in) ==
  /\ calls[i].pc = "exchange"
  /\ ~getOAuthToken_unconfigured(env)
  /\ issued' = Append(issued, [receivedAt |-> clock, expires_in |-> expires_in])
  /\ cachedToken' = Len(issued')
  /\ tokenExpiry' = getOAuthToken_expiry(clock, expires_in)
  /\ calls' = [calls EXCEPT ![i] =
                 fetchStreamPage([@ EXCEPT !.token = cachedToken',
                                           !.expirySet = tokenExpiry'])]
  /\ UNCHANGED <<env, revision, clock>>

\* A rejected exchange that is sent again.
ExchangeRejected_retry(i) ==
  /\ calls[i].pc = "exchange"
  /\ calls' = [calls EXCEPT ![i] = [@ EXCEPT !.sent = @ + 1]]
  /\ UNCHANGED <<cachedToken, tokenExpiry, env, revision, clock, issued>>

\* The auth endpoint answers call i with a non-success status, or the
\* request fails: getOAuthToken throws and handler answers 500.
ExchangeRejected(i) ==
  /\ calls[i].pc = "exchange"
  /\ calls' = [calls EXCEPT ![i] = handler_catch(@, "auth")]
  /\ UNCHANGED <<cachedToken, tokenExpiry, env, revision, clock, issued>>

\* The data endpoint answers call i: 200 with the page, or fetchStreamPage
\* throws and handler answers 500.
UpstreamResponds(i, ok) ==
  /\ calls[i].pc = "fetch"
  /\ calls' = [calls EXCEPT ![i] =
                 IF ok THEN Respond(@, 200) ELSE handler_catch(@, "upstream")]
  /\ UNCHANGED <<cachedToken, tokenExpiry, env, revision, clock, issued>>

\* Time passes.
Tick ==
  /\ clock < ClockStepMs * (MaxTicks + 1)
  /\ clock' = clock + ClockStepMs
  /\ UNCHANGED <<cachedToken, tokenExpiry, env, revision, calls, issued>>

ClientIdle ==
  /\ variant = "inline"
  /\ streams = <<>>
  /\ displayedStreams = <<>>
  /\ isLoading = TRUE
  /\ error = "null"
  /\ searchTerm = <<>>
  /\ sortOrder = "desc"
  /\ selectedCategory = "18122"
  /\ loadingCount = 0
  /\ pending = NoUpdates
  /\ loads = <<>>

InitProxy == ClientIdle /\ ProxyInit /\ PureIdle

NextProxy ==
  \/ \E m \in Methods, g \in GameIds :
        Request(m, g) /\ UNCHANGED <<clientVars, pureVars>>
  \/ \E i \in DOMAIN calls : \E e \in ExpiresInChoices :
        ExchangeOk(i, e) /\ UNCHANGED <<clientVars, pureVars>>
  \/ \E i \in DOMAIN calls : ExchangeRejected(i) /\ UNCHANGED <<clientVars, pureVars>>
  \/ \E i \in DOMAIN calls : \E ok \in BOOLEAN :
        UpstreamResponds(i, ok) /\ UNCHANGED <<clientVars, pureVars>>
  \/ Tick /\ UNCHANGED <<clientVars, pureVars>>

SpecProxy == InitProxy /\ [][NextProxy]_vars

\* ------------------------------------------------------------------------
\* The dedup expression on lists with repeated ids
\* ------------------------------------------------------------------------

\* Two channels, each observed with two viewer counts.
DedupRecords ==
  { Stream(i, "18122", v, <<"A">>, <<"b">>) : i \in {1, 2}, v \in {50, 200} }

DedupInit ==
  /\ raw \in BoundedSeq(DedupRecords, MaxRawLen)
  /\ unique = <<>>

\* const uniqueStreams = Array.from(new Map(...).values())
Dedup ==
  /\ unique = <<>>
  /\ unique' = <<uniqueStreams(raw)>>
  /\ UNCHANGED raw

InitDedup == ClientInit /\ ProxyIdle /\ DedupInit

NextDedup == Dedup /\ UNCHANGED <<clientVars, proxyVars>>

SpecDedup == InitDedup /\ [][NextDedup]_vars

\* ------------------------------------------------------------------------
\* The filter and sort effect on arbitrary lists
\* ------------------------------------------------------------------------

\* Four channels: titles and names in mixed case, two with the same viewer
\* count.
ViewRecords ==
  { Stream(1, "18122", 50, <<"A", "b">>, <<"x">>),
    Stream(2, "18122", 200, <<"b">>, <<"a">>),
    Stream(3, "18122", 50, <<"c">>, <<"x">>),
    Stream(4, "18122", 10, <<"a", "B">>, <<"b">>) }

\* The queries typed.
ViewTerms == {<<>>, <<"a">>, <<"B">>, <<"a", "B">>}

\* The main screen with some list loaded, some query typed and some order.
ViewInit ==
  /\ variant \in {"inline", "service"}
  /\ streams \in BoundedSeq(ViewRecords, MaxViewLen)
  /\ displayedStreams = streams
  /\ isLoading = FALSE
  /\ error = "null"
  /\ searchTerm \in ViewTerms
  /\ sortOrder \in {"asc", "desc"}
  /\ selectedCategory = "18122"
  /\ loadingCount = Len(streams)
  /\ pending = NoUpdates
  /\ loads = <<>>

\* The second effect runs for the rendered streams, searchTerm and sortOrder.
FilterEffect ==
  /\ pending = NoUpdates
  /\ pending' = [pending EXCEPT
                   !.displayedStreams =
                      <<filtered(variant, streams, searchTerm, sortOrder)>>]
  /\ UNCHANGED <<variant, streams, displayedStreams, isLoading, error, searchTerm,
                 sortOrder, selectedCategory, loadingCount, loads>>

InitView == ViewInit /\ ProxyIdle /\ PureIdle

NextView ==
  \/ FilterEffect /\ UNCHANGED <<proxyVars, pureVars>>
  \/ \E t \in ViewTerms : handleSearch(t) /\ UNCHANGED <<proxyVars, pureVars>>
  \/ toggleSort /\ UNCHANGED <<proxyVars, pureVars>>

SpecView == InitView /\ [][NextView]_vars

\* ------------------------------------------------------------------------
\* Claims
\* ------------------------------------------------------------------------

\* C1: counting the first, cursor-less fetch, a load issues at most 10 page
\* fetches, whatever the upstream returns.
C1_AtMostTenFetches ==
  \A i \in DOMAIN loads : loads[i].fetches <= MaxLoopPages

Latest == loads[Len(loads)]

Settled ==
  /\ loads # <<>>
  /\ \A i \in DOMAIN loads : loads[i].pc = "done"
  /\ pending = NoUpdates

\* C2: when a category was selected while an earlier load was still running,
\* then, once every load has finished and been rendered, streams,
\* displayedStreams and error hold the outcome of the load started last (the
\* one for the selected category) and nothing of an earlier load.
C2_OnlyLatestOutcome ==
  (Settled /\ Latest.overlaps # {}) =>
     IF Latest.outcome = "ok"
       THEN /\ error = "null"
            /\ streams = Latest.result
            /\ displayedStreams =
                 filtered(variant, Latest.result, searchTerm, sortOrder)
       ELSE /\ error = Latest.message
            /\ streams = <<>>
            /\ displayedStreams = <<>>

\* C3: the raw list of a load never holds more than 1000 records, for pages
\* of at most 100 records.
C3_RawAtMostCeiling ==
  \A i \in DOMAIN loads : Len(loads[i].allStreams) <= RecordCeiling

\* The step in which the outstanding fetch of load i rejects.
FailsNow(i) ==
  /\ loads[i].pc \in {"first", "next"}
  /\ loads'[i].outcome = "error"

\* C4: in the step in which a fetch of a load fails, the load ends with the
\* error surfaced (queued for error, with isLoading false), no list of
\* records is queued or written to streams or displayedStreams, nothing is
\* returned, and the load never takes another step: no further fetch, no
\* retry.
C4_AllOrNothing ==
  [][\A i \in DOMAIN loads \cap DOMAIN loads' :
       /\ FailsNow(i) =>
            /\ loads'[i].pc = "done"
            /\ loads'[i].result = <<>>
            /\ loads'[i].fetches = loads[i].fetches
            /\ loads'[i].message \in ErrorMessages
            /\ pending'.error = <<loads'[i].message>>
            /\ pending'.isLoading = <<FALSE>>
            /\ pending'.streams = pending.streams
            /\ pending'.displayedStreams = pending.displayedStreams
            /\ streams' = streams
            /\ displayedStreams' = displayedStreams
       /\ loads[i].outcome = "error" => loads'[i] = loads[i]]_vars

\* A load that failed on a later page, with records fetched before, and its
\* error on the screen.
C4_Witness ==
  \E i \in DOMAIN loads :
     /\ loads[i].outcome = "error"
     /\ loads[i].received >= 1
     /\ loads[i].allStreams # <<>>
     /\ error = loads[i].message
     /\ streams = <<>>
     /\ pending = NoUpdates

Ids(list) == { list[k].id : k \in DOMAIN list }

LastIndex(list, id) ==
  CHOOSE k \in DOMAIN list :
     /\ list[k].id = id
     /\ \A j \in DOMAIN list : j > k => list[j].id # id

\* C5: the deduplicated list holds exactly one record for each id of the raw
\* list, the record of the id's last occurrence, and no other record.
C5_Dedup ==
  unique # <<>> =>
     LET out == unique[1]
     IN /\ \A id \in Ids(raw) :
             /\ Cardinality({ k \in DOMAIN out : out[k].id = id }) = 1
             /\ \A k \in DOMAIN out :
                   out[k].id = id => out[k] = raw[LastIndex(raw, id)]
        /\ \A k \in DOMAIN out : out[k].id \in Ids(raw)

\* A raw list with both channels, one of them observed twice with different
\* viewer counts, deduplicated.
C5_Witness ==
  /\ unique # <<>>
  /\ Len(unique[1]) = 2
  /\ \E j, k \in DOMAIN raw :
        j < k /\ raw[j].id = raw[k].id /\ raw[j] # raw[k]

EndsWith(s, t) ==
  /\ Len(s) >= Len(t)
  /\ SubSeq(s, Len(s) - Len(t) + 1, Len(s)) = t

\* C6: a load whose last received page carried no cursor has finished
\* successfully, has issued no fetch after that page, and its result is the
\* dedup of everything accumulated, that page included.
C6_StopsWithoutCursor ==
  \A i \in DOMAIN loads :
     (loads[i].received >= 1 /\ ~Truthy(loads[i].response.cursor)) =>
        /\ loads[i].pc = "done"
        /\ loads[i].outcome = "ok"
        /\ loads[i].fetches = loads[i].received
        /\ EndsWith(loads[i].allStreams, loads[i].response.data)
        /\ loads[i].result = uniqueStreams(loads[i].allStreams)

\* A load ended by a cursor-less page in the middle: pages before it,
\* records on it, and both ceilings still far.
C6_Witness ==
  \E i \in DOMAIN loads :
     /\ loads[i].received = 3
     /\ loads[i].response.cursor = NoCursor
     /\ loads[i].response.data # <<>>
     /\ loads[i].currentPage < MaxLoopPages
     /\ Len(loads[i].allStreams) < RecordCeiling
     /\ loads[i].pc = "done"

\* C7: a load whose raw list has reached 1000 records has finished: no
\* fetch is scheduled or outstanding with 1000 or more records accumulated,
\* and the fetch that reached 1000 was its last.
C7_NoFetchAtCeiling ==
  \A i \in DOMAIN loads :
     Len(loads[i].allStreams) >= RecordCeiling =>
        /\ loads[i].pc = "done"
        /\ loads[i].fetches = loads[i].received

\* Ten full pages: 1000 records after the tenth fetch, a cursor in hand and
\* the page counter still under its limit, and the load has stopped.
C7_Witness ==
  \E i \in DOMAIN loads :
     /\ Len(loads[i].allStreams) = RecordCeiling
     /\ loads[i].fetches = 10
     /\ Truthy(loads[i].cursor)
     /\ loads[i].currentPage < MaxLoopPages
     /\ loads[i].pc = "done"
     /\ loads[i].outcome = "ok"

\* A GET with a game_id: the requests that reach getOAuthToken.
AsksToken(c) == c.method = "GET" /\ c.game_id # ""

\* C8: of two consecutive calls, neither overlapping an exchange, where the
\* first one's exchange succeeded and the second starts before the stored
\* expiry, the second sends no exchange and gets the first one's token: one
\* exchange for the two.
C8_TokenReuse ==
  \A j \in DOMAIN calls :
     (/\ j >= 2
      /\ calls[j - 1].alone /\ calls[j].alone
      /\ calls[j - 1].sent = 1 /\ calls[j - 1].token # Null
      /\ AsksToken(calls[j])
      /\ calls[j].startedAt < calls[j - 1].expirySet)
     => /\ calls[j].sent = 0
        /\ calls[j].token = calls[j - 1].token
        /\ calls[j - 1].sent + calls[j].sent = 1

\* Two calls, the second a while after the first: one token issued, both
\* hold it.
C8_Witness ==
  /\ Len(calls) = 2
  /\ calls[1].sent = 1 /\ calls[1].token # Null
  /\ calls[2].startedAt > calls[1].startedAt
  /\ calls[2].hit
  /\ calls[2].token = calls[1].token
  /\ Len(issued) = 1

\* C9: when a call reaches getOAuthToken while another call's exchange has
\* not returned and no valid token is cached, the exchanges are coalesced:
\* at most one credential exchange is in flight at any time.
C9_Coalesced ==
  Cardinality({ i \in DOMAIN calls : calls[i].pc = "exchange" }) <= 1

\* When token k really expires: its lifetime counted from its response.
RealExpiry(k) == issued[k].receivedAt + issued[k].expires_in * MsPerSecond

\* C10: the stored expiry of the cached token is 60 s before its real
\* expiry; a call is served from the cache exactly when a token is cached and
\* the call starts strictly earlier than 60 s before that token's real
\* expiry, and then it gets that token; no token with a lifetime of 60 s or
\* less is ever served from the cache.
C10_SafetyMargin ==
  /\ cachedToken # Null => tokenExpiry = RealExpiry(cachedToken) - RefreshEarlyMs
  /\ \A i \in DOMAIN calls :
        AsksToken(calls[i]) =>
           /\ calls[i].hit <=>
                 /\ calls[i].cachedAtStart # Null
                 /\ calls[i].startedAt + RefreshEarlyMs
                       < RealExpiry(calls[i].cachedAtStart)
           /\ calls[i].hit =>
                 /\ calls[i].token = calls[i].cachedAtStart
                 /\ issued[calls[i].token].expires_in * MsPerSecond > RefreshEarlyMs

\* A call served from the cache some time after the token was issued, while
\* the stored expiry, 60 s short of the real one, was still ahead.
C10_Witness ==
  \E i \in DOMAIN calls :
     /\ calls[i].hit
     /\ calls[i].startedAt > issued[calls[i].token].receivedAt
     /\ calls[i].startedAt < tokenExpiry
     /\ cachedToken = calls[i].token
     /\ tokenExpiry + RefreshEarlyMs = RealExpiry(cachedToken)

\* C11: with TWITCH_CLIENT_ID or TWITCH_CLIENT_SECRET absent, every call that
\* reaches getOAuthToken fails with the configuration error (answered 500)
\* without sending a request to the auth endpoint or the data endpoint, and
\* the token cache stays as it was.
C11_MissingCredentials ==
  getOAuthToken_unconfigured(env) =>
     /\ cachedToken = Null
     /\ tokenExpiry = 0
     /\ \A i \in DOMAIN calls :
           AsksToken(calls[i]) =>
              /\ calls[i].sent = 0
              /\ calls[i].fetched = 0
              /\ calls[i].pc = "done"
              /\ calls[i].failure = "config"
              /\ calls[i].status = 500

\* C12: a call sends at most one credential exchange; in the step in which
\* its exchange is rejected the call fails at once (answered 500, no data
\* request, no second exchange) and cachedToken and tokenExpiry are not
\* written; a call that has answered takes no further step.
C12_NoRetry ==
  [][/\ \A i \in DOMAIN calls' : calls'[i].sent <= 1
     /\ \A i \in DOMAIN calls :
          /\ (calls[i].pc = "exchange" /\ calls'[i].token = Null
                 /\ calls'[i] # calls[i]) =>
                /\ calls'[i].pc = "done"
                /\ calls'[i].failure = "auth"
                /\ calls'[i].status = 500
                /\ calls'[i].sent = 1
                /\ calls'[i].fetched = 0
                /\ cachedToken' = cachedToken
                /\ tokenExpiry' = tokenExpiry
          /\ calls[i].pc = "done" => calls'[i] = calls[i]]_vars

\* A rejected exchange while an earlier call's token, already past its
\* stored expiry, is still in the cache.
C12_Witness ==
  \E i \in DOMAIN calls :
     /\ calls[i].failure = "auth"
     /\ calls[i].sent = 1
     /\ calls[i].cachedAtStart # Null
     /\ cachedToken = calls[i].cachedAtStart
     /\ tokenExpiry <= calls[i].startedAt

\* The status the boundary checks of handler give a request that does not
\* reach getOAuthToken.
BoundaryStatus(c) ==
  IF c.method = "OPTIONS" THEN 200 ELSE IF c.method # "GET" THEN 405 ELSE 400

\* C13: a request that is OPTIONS, another non-GET method, or a GET without
\* game_id is answered in the step it arrives, with 200, 405 and 400
\* respectively (the method deciding before game_id), exactly once, without
\* a token exchange or a data request and without a write to the token
\* cache; it takes no step afterwards.
C13_ShortCircuit ==
  [][/\ \A i \in DOMAIN calls' \ DOMAIN calls :
          ~AsksToken(calls'[i]) =>
             /\ calls'[i].pc = "done"
             /\ calls'[i].status = BoundaryStatus(calls'[i])
             /\ calls'[i].responses = 1
             /\ calls'[i].sent = 0
             /\ calls'[i].fetched = 0
             /\ calls'[i].token = Null
             /\ cachedToken' = cachedToken
             /\ tokenExpiry' = tokenExpiry
             /\ issued' = issued
     /\ \A i \in DOMAIN calls :
          ~AsksToken(calls[i]) => calls'[i] = calls[i]]_vars

\* A GET without game_id answered 400 and a POST without game_id answered
\* 405.
C13_Witness ==
  /\ \E i \in DOMAIN calls :
        /\ calls[i].method = "GET" /\ calls[i].game_id = ""
        /\ calls[i].status = 400
  /\ \E i \in DOMAIN calls :
        /\ calls[i].method = "POST" /\ calls[i].game_id = ""
        /\ calls[i].status = 405

\* C14: a GET with game_id is answered at most once, and exactly once when
\* it has finished; it is answered 200 only with a token in hand, its data
\* request sent and nothing thrown; whenever the token acquisition or the
\* data request fails, the request has been answered, with 500.
C14_ErrorMapping ==
  \A i \in DOMAIN calls :
     AsksToken(calls[i]) =>
        /\ calls[i].responses = IF calls[i].pc = "done" THEN 1 ELSE 0
        /\ calls[i].pc = "done" => calls[i].status \in {200, 500}
        /\ calls[i].status = 200 =>
              /\ calls[i].failure = "none"
              /\ calls[i].token # Null
              /\ calls[i].fetched = 1
        /\ calls[i].failure # "none" =>
              /\ calls[i].pc = "done"
              /\ calls[i].status = 500
        /\ (calls[i].pc = "done" /\ calls[i].failure = "none") =>
              calls[i].status = 200

\* One request answered 200 and one answered 500 after its data request
\* failed.
C14_Witness ==
  /\ \E i \in DOMAIN calls :
        AsksToken(calls[i]) /\ calls[i].status = 200
  /\ \E i \in DOMAIN calls :
        /\ AsksToken(calls[i])
        /\ calls[i].status = 500
        /\ calls[i].failure = "upstream"
        /\ calls[i].fetched = 1

\* The records of list all belong to category g.
AllOf(list, g) == \A k \in DOMAIN list : list[k].game_id = g

\* list is the result of one load that succeeded.
ResultOfOneLoad(list) ==
  \E i \in DOMAIN loads :
     /\ loads[i].outcome = "ok"
     /\ list = loads[i].result
     /\ AllOf(list, loads[i].category)

\* C15: every load accumulates only the records of its own pages, and the
\* streams list, rendered or queued, is at every moment empty or exactly the
\* deduplicated result of one single load; it never holds records of two
\* loads.
C15_LoadIsolation ==
  /\ \A i \in DOMAIN loads : AllOf(loads[i].allStreams, loads[i].category)
  /\ streams = <<>> \/ ResultOfOneLoad(streams)
  /\ pending.streams # <<>> =>
        (pending.streams[1] = <<>> \/ ResultOfOneLoad(pending.streams[1]))

\* Two loads for different categories that ran at the same time and both
\* returned records; the list on the screen is the result of one of them.
C15_Witness ==
  \E i, j \in DOMAIN loads :
     /\ i \in loads[j].overlaps
     /\ loads[i].category # loads[j].category
     /\ loads[i].outcome = "ok" /\ loads[i].result # <<>>
     /\ loads[j].outcome = "ok" /\ loads[j].result # <<>>
     /\ streams = loads[i].result
     /\ pending.streams = <<loads[j].result>>

\* C16: in every state in which a failed load's error is on the screen, a
\* click that starts a new load without reloading the page is available.
C16_Recoverable ==
  (error # "null" /\ Len(loads) < MaxLoads) =>
     \E c \in categories : ENABLED handleCategoryChange(c)

\* Case folding of one character, and containment up to case.
Fold(ch) == IF ch = "A" THEN "a" ELSE IF ch = "B" THEN "b" ELSE ch

ContainsNoCase(s, t) ==
  \E k \in 0..(Len(s) - Len(t)) :
     \A j \in 1..Len(t) : Fold(s[k + j]) = Fold(t[j])

\* The records the query asks for: the title contains it or, where the
\* component also searches the streamer name, the user_name does.
Wanted(r) ==
  \/ ContainsNoCase(r.title, searchTerm)
  \/ variant = "inline" /\ ContainsNoCase(r.user_name, searchTerm)

Count(list, r) == Cardinality({ k \in DOMAIN list : list[k] = r })

\* C17: the list the filter effect hands to setDisplayedStreams holds every
\* record of streams that the query asks for, as many times as streams
\* holds it, and no other record; with the empty query, every record.
C17_Filter ==
  pending.displayedStreams # <<>> =>
     LET out == pending.displayedStreams[1]
     IN /\ \A r \in ViewRecords :
             Count(out, r) = IF Wanted(r) THEN Count(streams, r) ELSE 0
        /\ searchTerm = <<>> => Len(out) = Len(streams)

\* The four channels and the query "a" where the streamer name is searched
\* too: one kept for its title in another case, one for its user_name, one
\* dropped.
C17_Witness ==
  /\ variant = "inline"
  /\ searchTerm = <<"a">>
  /\ \A r \in ViewRecords : Count(streams, r) = 1
  /\ pending.displayedStreams # <<>>
  /\ Len(pending.displayedStreams[1]) = 3
  /\ \E k \in 1..3 : pending.displayedStreams[1][k].id = 2

ViewerCounts == { r.viewer_count : r \in ViewRecords }

\* C18: the list handed to setDisplayedStreams is a permutation of the
\* filtered list, non-increasing in viewer_count for 'desc' and
\* non-decreasing for 'asc', and the records of each viewer_count are in
\* the order they have in streams.
C18_Sort ==
  pending.displayedStreams # <<>> =>
     LET out == pending.displayedStreams[1]
         kept == SelectSeq(streams, Wanted)
     IN /\ Len(out) = Len(kept)
        /\ \A r \in ViewRecords : Count(out, r) = Count(kept, r)
        /\ \A k \in 1..(Len(out) - 1) :
             IF sortOrder = "desc"
               THEN out[k].viewer_count >= out[k + 1].viewer_count
               ELSE out[k].viewer_count <= out[k + 1].viewer_count
        /\ \A v \in ViewerCounts :
             LET Has(r) == r.viewer_count = v
             IN SelectSeq(out, Has) = SelectSeq(kept, Has)

\* Viewer counts 50, 200, 50, 10 sorted descending: 200, 50, 50, 10, the
\* two 50s in their original order.
C18_Witness ==
  /\ Len(streams) = 4
  /\ streams[1].id = 1 /\ streams[2].id = 2
  /\ streams[3].id = 3 /\ streams[4].id = 4
  /\ searchTerm = <<>>
  /\ sortOrder = "desc"
  /\ pending.displayedStreams = <<<<streams[2], streams[1], streams[3], streams[4]>>>>

\* A page request of load l is outstanding.
Outstanding(l) == l.pc \in {"first", "next"}

\* C19: a load has at most one page request outstanding; it has issued one
\* request more than it has received pages exactly while a request is
\* outstanding or after one failed; the first request carries no cursor,
\* and a later request is outstanding only with the previous page received
\* and appended, and carries exactly that page's cursor.
C19_Sequential ==
  \A i \in DOMAIN loads :
     /\ loads[i].fetches = loads[i].received +
           (IF Outstanding(loads[i]) \/ loads[i].outcome = "error" THEN 1 ELSE 0)
     /\ loads[i].pc = "first" =>
           loads[i].received = 0 /\ loads[i].sent = NoCursor
     /\ loads[i].pc = "next" =>
           /\ loads[i].received >= 1
           /\ loads[i].sent = loads[i].response.cursor
           /\ Truthy(loads[i].sent)
           /\ EndsWith(loads[i].allStreams, loads[i].response.data)

\* The third request outstanding, carrying the second page's cursor, which
\* is not the first page's.
C19_Witness ==
  \E i \in DOMAIN loads :
     /\ loads[i].pc = "next"
     /\ loads[i].fetches = 3
     /\ loads[i].received = 2
     /\ loads[i].sent = "c2"
     /\ loads[i].response = [data |-> loads[i].allStreams, cursor |-> "c2"]

\* Why a finished load stopped: an error, a page without cursor, the page
\* counter at its limit, or the raw list at its ceiling.
StopReason(l) ==
  \/ l.outcome = "error"
  \/ ~Truthy(l.cursor)
  \/ l.currentPage >= MaxLoopPages
  \/ Len(l.allStreams) >= RecordCeiling

\* C20: with every timer firing and every page request answered or failing,
\* every load that has started eventually finishes; and a finished load has
\* called setIsLoading(false) and has stopped for an error, a page without
\* cursor, the page-count ceiling or the raw-record ceiling.
C20_Termination ==
  /\ [](\A i \in DOMAIN loads :
          loads[i].pc = "done" =>
             StopReason(loads[i]) /\ pending.isLoading = <<FALSE>>)
  /\ \A i \in 1..MaxLoads :
        (Len(loads) >= i) ~> (Len(loads) >= i /\ loads[i].pc = "done")

\* A load stopped by the page counter alone: a cursor in hand, the raw list
\* under its ceiling, no error.
C20_Witness ==
  \E i \in DOMAIN loads :
     /\ loads[i].pc = "done"
     /\ loads[i].outcome = "ok"
     /\ Truthy(loads[i].cursor)
     /\ Len(loads[i].allStreams) < RecordCeiling
     /\ loads[i].currentPage = MaxLoopPages
     /\ pending.isLoading = <<FALSE>>

\* C21: a page request that is outstanding is eventually ended, by an answer
\* or by the client itself, whatever the upstream does; so every load
\* eventually leaves the loading state.
C21_RequestEnds ==
  \A i \in 1..MaxLoads :
     (Len(loads) >= i /\ Outstanding(loads[i])) ~>
        (Len(loads) >= i /\ ~Outstanding(loads[i]))

\* C22: a load that has issued k page requests has gone through exactly
\* k - 1 delays: none before the first request, one between every two
\* consecutive requests, none after a request that failed.
C22_OneDelayPerPage ==
  \A i \in DOMAIN loads :
     /\ loads[i].delays = loads[i].fetches - 1
     /\ loads[i].pc = "first" => loads[i].delays = 0
     /\ loads[i].pc = "delay" => loads[i].delays = loads[i].received - 1

\* A load that failed on its third request, two delays behind it.
C22_Witness ==
  \E i \in DOMAIN loads :
     /\ loads[i].outcome = "error"
     /\ loads[i].fetches = 3
     /\ loads[i].received = 2
     /\ loads[i].delays = 2

\* C23: in no step does the raw list of a load get shorter, and in every
\* step in which a page of the inline loop arrives the count handed to
\* setLoadingCount is the length of the raw list, that page included.
C23_Monotonic ==
  [][\A i \in DOMAIN loads \cap DOMAIN loads' :
       /\ Len(loads'[i].allStreams) >= Len(loads[i].allStreams)
       /\ (variant = "inline" /\ loads'[i].received = loads[i].received + 1) =>
             /\ pending'.loadingCount = <<Len(loads'[i].allStreams)>>
             /\ Len(loads'[i].allStreams) =
                   Len(loads[i].allStreams) + Len(loads'[i].response.data)]_vars

\* Three pages in, the same channel seen on two of them: the progress
\* display is handed the raw count, 2.
C23_Witness ==
  \E i \in DOMAIN loads :
     /\ variant = "inline"
     /\ loads[i].received = 3
     /\ loads[i].response.data = <<>>
     /\ Len(loads[i].allStreams) = 2
     /\ loads[i].allStreams[1].id = loads[i].allStreams[2].id
     /\ pending.loadingCount = <<2>>

\* C24: whenever the load started last, the one for the selected category,
\* has not finished and no setIsLoading is waiting to be rendered, isLoading
\* is true: no other load's finish has switched it off.
C24_LoadingWhileInFlight ==
  (loads # <<>> /\ Latest.pc # "done" /\ pending.isLoading = <<>>) => isLoading

\* C25: a step that changes the search term or the sort order, the page not
\* being reloaded, leaves streams alone, rendered and queued; and whenever
\* nothing is waiting to be rendered, displayedStreams is the stable sort of
\* the filter of streams for the current term and order, which for the empty
\* term is every loaded record.
C25_FilterSortFrame ==
  /\ [][((searchTerm' # searchTerm \/ sortOrder' # sortOrder) /\ loads' = loads) =>
          (streams' = streams /\ pending'.streams = pending.streams)]_vars
  /\ [](pending = NoUpdates =>
          /\ displayedStreams = filtered(variant, streams, searchTerm, sortOrder)
          /\ searchTerm = <<>> =>
                /\ Len(displayedStreams) = Len(streams)
                /\ \A k \in DOMAIN streams :
                      \E j \in DOMAIN displayedStreams : displayedStreams[j] = streams[k])

\* Two channels loaded, a query typed that hid one of them, the query
\* cleared and the order toggled to ascending: both are displayed again, in
\* the other order than loaded.
C25_Witness ==
  /\ pending = NoUpdates
  /\ Len(streams) = 2
  /\ streams[1].viewer_count > streams[2].viewer_count
  /\ searchTerm = <<>>
  /\ sortOrder = "asc"
  /\ displayedStreams = <<streams[2], streams[1]>>

\* C26: run against the same upstream answers, the loop inside loadStreams
\* and fetchAllStreams are at every moment at the same point with the same
\* requests issued, the same cursor sent last, the same pages received and
\* the same records accumulated, and they end alike: the same deduplicated
\* list in the same order, or the same error at the same page.
C26_LoadsAgree ==
  Len(loads) = 2 => loads[1] = loads[2]

\* Both have stopped at the record ceiling after ten full pages and hand
\* over the two channels in the order they were first seen; their last
\* request carried a cursor.
C26_Witness ==
  /\ Len(loads) = 2
  /\ loads[1].outcome = "ok"
  /\ loads[2].outcome = "ok"
  /\ loads[1].fetches = 10
  /\ loads[2].fetches = 10
  /\ loads[2].sent = "c2"
  /\ Len(loads[2].allStreams) = RecordCeiling
  /\ loads[1].result = loads[2].result
  /\ loads[2].result = <<loads[2].allStreams[1], loads[2].allStreams[2]>>
  /\ loads[2].allStreams[1].id # loads[2].allStreams[2].id

====
